---- MODULE Spec2Model ----
(***************************************************************************)
(* Model of sb3_contrib/ars/policies.py: the ARS policy networks.          *)
(*                                                                         *)
(* ARSPolicy builds a multi-layer action network, ARSLinearPolicy calls    *)
(* the ARSPolicy constructor and then overwrites the action network by a   *)
(* single affine layer.  The model keeps the structure of the networks     *)
(* (the layer lists that create_mlp / nn.Linear / nn.Sequential build),    *)
(* the parameters of the layers, and evaluates forward on them.            *)
(*                                                                         *)
(* Numbers are fixed point: a tensor entry x stands for the real x / Unit. *)
(* Weights and biases are integers (real multipliers), so an affine layer  *)
(* is exact on the grid.                                                   *)
(***************************************************************************)
EXTENDS Integers, Sequences, FiniteSets, TLC

(* ---------------------------- bounds ----------------------------------- *)
MaxObsDim == 1      \* observation spaces are Box(shape=(k,)), k in 1..MaxObsDim
MaxActDim == 2      \* Box action dimension D and Discrete category count N
MaxWidth == 1       \* hidden widths a caller supplies in net_arch
MaxBatch == 2       \* rows of an observation batch
MaxNonZero == 1     \* non-zero parameters the external training leaves

(* floor(4 * tanh(k / 4)) for k = 1..4; tanh stays below 1 beyond. *)
TanhTable == <<0, 1, 2, 3>>
Unit == Len(TanhTable)          \* the fixed-point grid: the real 1.0

ObsVals == {0, Unit}            \* the observation entries 0.0 and 1.0
WeightVals == {-1, 1}           \* the values training writes to a parameter

(* ---------------------------- spaces ----------------------------------- *)
Box(d) == [kind |-> "Box", n |-> d]
Discrete(k) == [kind |-> "Discrete", n |-> k]
OtherSpaces ==
    {[kind |-> "Tuple", n |-> 0], [kind |-> "Dict", n |-> 0],
     [kind |-> "MultiDiscrete", n |-> 0], [kind |-> "MultiBinary", n |-> 0]}
ObservationSpaces == {Box(k) : k \in 1..MaxObsDim}
ActionSpaces ==
    {Box(d) : d \in 1..MaxActDim} \cup {Discrete(k) : k \in 1..MaxActDim}
        \cup OtherSpaces

\* isinstance(space, gym.spaces.Box) / isinstance(space, gym.spaces.Discrete)
IsBox(space) == space.kind = "Box"
IsDiscrete(space) == space.kind = "Discrete"

\* get_action_dim(action_space) for a Box of shape (d,)
get_action_dim(space) == space.n

(* Optional[List[int]]: <<>> is None, <<a>> is the list a. *)
None == <<>>
Some(a) == <<a>>
NetArchArgs ==
    {None, Some(<<>>)} \cup {Some(<<h>>) : h \in 1..MaxWidth}
ActivationFns == {"ReLU", "Tanh"}

(* ---------------------------- layers ----------------------------------- *)
Linear(in, out, b) ==
    [type |-> "Linear", in_features |-> in, out_features |-> out, bias |-> b]
Activation(fn) == [type |-> fn]

RECURSIVE HiddenLayers(_, _, _)
HiddenLayers(input_dim, net_arch, activation_fn) ==
    IF net_arch = <<>> THEN <<>>
    ELSE <<Linear(input_dim, Head(net_arch), TRUE), Activation(activation_fn)>>
            \o HiddenLayers(Head(net_arch), Tail(net_arch), activation_fn)

\* stable_baselines3.common.torch_layers.create_mlp
create_mlp(input_dim, output_dim, net_arch, activation_fn, squash_output) ==
    LET last_layer_dim ==
            IF Len(net_arch) > 0 THEN net_arch[Len(net_arch)] ELSE input_dim
    IN  HiddenLayers(input_dim, net_arch, activation_fn)
            \o (IF output_dim > 0
                THEN <<Linear(last_layer_dim, output_dim, TRUE)>> ELSE <<>>)
            \o (IF squash_output THEN <<Activation("Tanh")>> ELSE <<>>)

(* --------------------------- construction ------------------------------ *)
NoPolicy == [cls |-> "None"]
Raise(e) == [error |-> e, policy |-> NoPolicy]
Return(p) == [error |-> "None", policy |-> p]

\* a default of one hidden layer
DefaultNetArchShort == <<64>>

DefaultNetArch == <<64, 64>>

(* Variants of ActorNet with a slip in one branch. *)
\* `else:` in place of `elif isinstance(action_space, gym.spaces.Discrete):`
ActorNetElseDiscrete(a, features_dim, net_arch) ==
    IF IsBox(a.action_space)
    THEN Some(create_mlp(features_dim, get_action_dim(a.action_space),
                         net_arch, a.activation_fn, TRUE))
    ELSE Some(create_mlp(features_dim, a.action_space.n,
                         net_arch, a.activation_fn, FALSE))

\* squash_output=squash_output in place of squash_output=True
ActorNetSquashArg(a, features_dim, net_arch) ==
    IF IsBox(a.action_space)
    THEN Some(create_mlp(features_dim, get_action_dim(a.action_space),
                         net_arch, a.activation_fn, a.squash_output))
    ELSE IF IsDiscrete(a.action_space)
    THEN Some(create_mlp(features_dim, a.action_space.n,
                         net_arch, a.activation_fn, FALSE))
    ELSE None

\* the else branch leaves an empty actor_net instead of raising
ActorNetElseEmpty(a, features_dim, net_arch) ==
    IF IsBox(a.action_space)
    THEN Some(create_mlp(features_dim, get_action_dim(a.action_space),
                         net_arch, a.activation_fn, TRUE))
    ELSE IF IsDiscrete(a.action_space)
    THEN Some(create_mlp(features_dim, a.action_space.n,
                         net_arch, a.activation_fn, FALSE))
    ELSE Some(<<>>)

\* ARSPolicy.__init__: the branch on the action space that builds actor_net;
\* None stands for the raise of the else branch
ActorNet(a, features_dim, net_arch) ==
    IF IsBox(a.action_space)
    THEN Some(create_mlp(features_dim, get_action_dim(a.action_space),
                         net_arch, a.activation_fn, TRUE))
    ELSE IF IsDiscrete(a.action_space)
    THEN Some(create_mlp(features_dim, a.action_space.n,
                         net_arch, a.activation_fn, FALSE))
    ELSE None

\* ARSPolicy.__init__ on bound arguments a
ARSPolicyInit(a) ==
    LET net_arch == IF a.net_arch = None THEN DefaultNetArch ELSE a.net_arch[1]
        features_dim == a.observation_space.n
        actor_net == ActorNet(a, features_dim, net_arch)
    IN  IF actor_net = None THEN Raise("NotImplementedError")
        ELSE Return([cls |-> "ARSPolicy",
                     observation_space |-> a.observation_space,
                     action_space |-> a.action_space,
                     squash_output |-> IsBox(a.action_space) /\ a.squash_output,
                     net_arch |-> net_arch,
                     features_dim |-> features_dim,
                     activation_fn |-> a.activation_fn,
                     action_net |-> actor_net[1]])

(* Variants of LinearActionNet with a slip. *)
\* the network of the base class is built again instead of one affine layer
LinearActionNetMlp(a, features_dim) ==
    IF IsBox(a.action_space)
    THEN Some(create_mlp(features_dim, get_action_dim(a.action_space),
                         DefaultNetArch, "ReLU", a.squash_output))
    ELSE IF IsDiscrete(a.action_space)
    THEN Some(create_mlp(features_dim, a.action_space.n,
                         DefaultNetArch, "ReLU", FALSE))
    ELSE None

\* bias=with_bias forgotten: nn.Linear takes its default bias=True
LinearActionNetBias(a, features_dim) ==
    IF IsBox(a.action_space)
    THEN LET lin == Linear(features_dim, get_action_dim(a.action_space), TRUE)
         IN  Some(IF a.squash_output THEN <<lin, Activation("Tanh")>>
                  ELSE <<lin>>)
    ELSE IF IsDiscrete(a.action_space)
    THEN Some(<<Linear(features_dim, a.action_space.n, TRUE)>>)
    ELSE None

\* ARSLinearPolicy.__init__: the branch on the action space that overwrites
\* action_net; None stands for the raise of the else branch
LinearActionNet(a, features_dim) ==
    IF IsBox(a.action_space)
    THEN LET lin == Linear(features_dim, get_action_dim(a.action_space),
                           a.with_bias)
         IN  Some(IF a.squash_output THEN <<lin, Activation("Tanh")>>
                  ELSE <<lin>>)
    ELSE IF IsDiscrete(a.action_space)
    THEN Some(<<Linear(features_dim, a.action_space.n, a.with_bias)>>)
    ELSE None

\* The arguments of super().__init__(observation_space, action_space,
\* squash_output=squash_output): net_arch and activation_fn take their defaults
SuperArgs(a) ==
    [observation_space |-> a.observation_space,
     action_space |-> a.action_space,
     net_arch |-> None,
     activation_fn |-> "ReLU",
     squash_output |-> a.squash_output]

\* ARSLinearPolicy.__init__ on bound arguments a
ARSLinearPolicyInit(a) ==
    LET super == ARSPolicyInit(SuperArgs(a))
        action_net == LinearActionNet(a, super.policy.features_dim)
    IN  IF super.error # "None" THEN super
        ELSE IF action_net = None THEN Raise("NotImplementedError")
        ELSE Return([super.policy EXCEPT !.cls = "ARSLinearPolicy",
                                         !.action_net = action_net[1]])

(* The keyword parameters of the two constructors and their defaults. *)
Required == {"observation_space", "action_space"}
Defaults(cls) ==
    IF cls = "ARSPolicy"
    THEN [net_arch |-> None, activation_fn |-> "ReLU", squash_output |-> TRUE]
    ELSE [with_bias |-> FALSE, squash_output |-> FALSE]
Signature(cls) == Required \cup DOMAIN Defaults(cls)

\* cls(**kwargs): Python binds the keywords, then runs __init__
New(cls, kwargs) ==
    IF ~(DOMAIN kwargs \subseteq Signature(cls)) \/ ~(Required \subseteq DOMAIN kwargs)
    THEN Raise("TypeError")
    ELSE LET a == [k \in Signature(cls) |->
                     IF k \in DOMAIN kwargs THEN kwargs[k] ELSE Defaults(cls)[k]]
         IN  IF cls = "ARSPolicy" THEN ARSPolicyInit(a) ELSE ARSLinearPolicyInit(a)

\* ARSPolicy._get_constructor_parameters (inherited by ARSLinearPolicy)
_get_constructor_parameters(self) ==
    [observation_space |-> self.observation_space,
     action_space |-> self.action_space,
     net_arch |-> Some(self.net_arch),
     activation_fn |-> self.activation_fn]

(* ---------------------------- evaluation ------------------------------- *)
Abs(x) == IF x < 0 THEN -x ELSE x
Max(x, y) == IF x >= y THEN x ELSE y

\* nn.ReLU and nn.Tanh on one entry
ReLU(x) == Max(x, 0)
Tanh(x) ==
    LET t == IF Abs(x) = 0 THEN 0
             ELSE IF Abs(x) <= Len(TanhTable) THEN TanhTable[Abs(x)]
             ELSE TanhTable[Len(TanhTable)]
    IN  IF x < 0 THEN -t ELSE t

(* The parameters of a network are kept sparse: w maps <<l, i, j>> to the  *)
(* weight of layer l from input j to output i, j = 0 being the bias of     *)
(* output i; a position outside DOMAIN w holds 0.                          *)
RECURSIVE SumTerms(_, _, _)
SumTerms(S, w, x) ==
    IF S = {} THEN 0
    ELSE LET p == CHOOSE q \in S : TRUE
         IN  w[p] * (IF p[3] = 0 THEN Unit ELSE x[p[3]])
                + SumTerms(S \ {p}, w, x)

\* nn.Linear: y[i] = sum_j W[i][j] * x[j] + b[i]; without bias no b is read
LinearForward(layer, l, w, x) ==
    [i \in 1..layer.out_features |->
        SumTerms({p \in DOMAIN w :
                    /\ p[1] = l /\ p[2] = i
                    /\ (p[3] = 0 => layer.bias)}, w, x)]

LayerForward(layer, l, w, x) ==
    IF layer.type = "Linear" THEN LinearForward(layer, l, w, x)
    ELSE IF layer.type = "ReLU" THEN [i \in 1..Len(x) |-> ReLU(x[i])]
    ELSE [i \in 1..Len(x) |-> Tanh(x[i])]

\* nn.Sequential.forward: the layers in order, from layer l on
RECURSIVE Sequential(_, _, _, _)
Sequential(net, l, w, x) ==
    IF l > Len(net) THEN x
    ELSE Sequential(net, l + 1, w, LayerForward(net[l], l, w, x))

\* self.action_net(features), row by row
action_net(self, w, features) ==
    [r \in 1..Len(features) |-> Sequential(self.action_net, 1, w, features[r])]

\* BasePolicy.extract_features with the FlattenExtractor on a (batch, k) Box
extract_features(self, obs) ==
    [r \in 1..Len(obs) |-> [c \in 1..self.features_dim |-> obs[r][c]]]

\* the 0-based index of the last maximal value
argmaxLast(v) ==
    (CHOOSE i \in 1..Len(v) :
        /\ \A j \in 1..Len(v) : v[j] <= v[i]
        /\ \A j \in (i + 1)..Len(v) : v[j] < v[i]) - 1

\* th.argmax over one row: the 0-based index of the first maximal value
argmax(v) ==
    (CHOOSE i \in 1..Len(v) :
        /\ \A j \in 1..Len(v) : v[j] <= v[i]
        /\ \A j \in 1..(i - 1) : v[j] < v[i]) - 1

Result(v) == [error |-> "None", value |-> v]
Failure(e) == [error |-> e, value |-> <<>>]
NoResult == Result(<<>>)

\* ARSPolicy.forward
forward(self, w, obs) ==
    LET features == extract_features(self, obs)
    IN  IF IsBox(self.action_space)
        THEN Result(action_net(self, w, features))
        ELSE IF IsDiscrete(self.action_space)
        THEN LET logits == action_net(self, w, features)
             IN  Result([r \in 1..Len(logits) |-> argmax(logits[r])])
        ELSE Failure("NotImplementedError")

\* a _predict that reads its flag: only the deterministic path is implemented
_predictSampling(self, w, observation, deterministic) ==
    IF deterministic THEN forward(self, w, observation)
    ELSE Failure("NotImplementedError")

\* ARSPolicy._predict
_predict(self, w, observation, deterministic) == forward(self, w, observation)

(* ------------------------------ state ---------------------------------- *)
VARIABLES
    pc,         \* "start" before the constructor call, then "ready" or "failed"
    args,       \* the class and the keywords of the constructor call
    policy,     \* the constructed policy object
    error,      \* the exception the constructor raised, or "None"
    weights,    \* the parameters of policy.action_net
    lastOp,     \* the last call on the policy
    lastObs,    \* its observation batch
    lastDet,    \* its deterministic flag
    out,        \* what forward / _predict returned or raised
    saved,      \* what _get_constructor_parameters returned, as an Optional
    clone       \* the outcome of cls(**saved)

vars == <<pc, args, policy, error, weights, lastOp, lastObs, lastDet,
          out, saved, clone>>

MlpKwargs ==
    [observation_space : ObservationSpaces, action_space : ActionSpaces,
     net_arch : NetArchArgs, activation_fn : ActivationFns,
     squash_output : BOOLEAN]
LinearKwargs ==
    [observation_space : ObservationSpaces, action_space : ActionSpaces,
     with_bias : BOOLEAN, squash_output : BOOLEAN]

\* The rows of a batch: every entry 0.0, or every entry 1.0
Rows(k) == {[c \in 1..k |-> v] : v \in ObsVals}
Batches(k) == UNION {[1..b -> Rows(k)] : b \in 1..MaxBatch}

NoCall == [cls |-> "None"]
NoClone == Raise("None")

Init ==
    /\ pc = "start"
    /\ args = NoCall
    /\ policy = NoPolicy
    /\ error = "None"
    /\ weights = <<>>
    /\ lastOp = "none"
    /\ lastObs = <<>>
    /\ lastDet = TRUE
    /\ out = NoResult
    /\ saved = None
    /\ clone = NoClone

(* The calls on a policy are synchronous and the policy keeps no trace of   *)
(* them: lastOp .. clone hold the call whose result the caller is looking   *)
(* at, and CallReturns hands control back to the caller for the next call.  *)
CallReturns ==
    /\ pc = "ready"
    /\ lastOp # "none"
    /\ lastOp' = "none" /\ lastObs' = <<>> /\ lastDet' = TRUE
    /\ out' = NoResult /\ saved' = None /\ clone' = NoClone
    /\ UNCHANGED <<pc, args, policy, error, weights>>

Construct(cls, kwargs) ==
    /\ pc = "start"
    /\ LET r == New(cls, kwargs)
       IN  /\ pc' = IF r.error = "None" THEN "ready" ELSE "failed"
           /\ policy' = r.policy
           /\ error' = r.error
    /\ args' = [cls |-> cls, kwargs |-> kwargs]
    /\ UNCHANGED <<weights, lastOp, lastObs, lastDet, out, saved, clone>>

ConstructMlp == \E kw \in MlpKwargs : Construct("ARSPolicy", kw)
ConstructLinear == \E kw \in LinearKwargs : Construct("ARSLinearPolicy", kw)

(* The parameters of layer l that training writes: the bias and the first *)
(* weight of its first output unit.  Every other parameter stays 0.         *)
Trainable(net, l) ==
    IF net[l].type # "Linear" THEN {}
    ELSE {<<l, 1, j>> : j \in (IF net[l].bias THEN 0 ELSE 1)..1}

\* The external training procedure writes one parameter of the action network
LoadWeights ==
    /\ pc = "ready"
    /\ lastOp = "none"
    /\ \E l \in 1..Len(policy.action_net) :
         \E p \in Trainable(policy.action_net, l) :
           \E v \in WeightVals :
             /\ Cardinality(DOMAIN weights \cup {p}) <= MaxNonZero
             /\ weights' = (p :> v) @@ weights
    /\ UNCHANGED <<pc, args, policy, error, lastOp, lastObs, lastDet, out,
                   saved, clone>>

Forward ==
    /\ pc = "ready"
    /\ lastOp = "none"
    /\ \E obs \in Batches(policy.features_dim) :
         /\ lastObs' = obs
         /\ out' = forward(policy, weights, obs)
    /\ lastOp' = "forward"
    /\ lastDet' = TRUE
    /\ saved' = None /\ clone' = NoClone
    /\ UNCHANGED <<pc, args, policy, error, weights>>

Predict ==
    /\ pc = "ready"
    /\ lastOp = "none"
    /\ \E obs \in Batches(policy.features_dim), deterministic \in BOOLEAN :
         /\ lastObs' = obs
         /\ lastDet' = deterministic
         /\ out' = _predict(policy, weights, obs, deterministic)
    /\ lastOp' = "predict"
    /\ saved' = None /\ clone' = NoClone
    /\ UNCHANGED <<pc, args, policy, error, weights>>

GetConstructorParameters ==
    /\ pc = "ready"
    /\ lastOp = "none"
    /\ saved' = Some(_get_constructor_parameters(policy))
    /\ lastOp' = "get_constructor_parameters"
    /\ lastObs' = <<>> /\ lastDet' = TRUE /\ out' = NoResult /\ clone' = NoClone
    /\ UNCHANGED <<pc, args, policy, error, weights>>

\* type(policy)(**saved): the round trip through the serialization hook
Reconstruct ==
    /\ pc = "ready"
    /\ lastOp = "get_constructor_parameters"
    /\ clone' = New(policy.cls, saved[1])
    /\ lastOp' = "reconstruct"
    /\ UNCHANGED <<pc, args, policy, error, weights, lastObs, lastDet,
                   out, saved>>

Next ==
    \/ ConstructMlp
    \/ ConstructLinear
    \/ LoadWeights
    \/ Forward
    \/ Predict
    \/ GetConstructorParameters
    \/ Reconstruct
    \/ CallReturns

Spec == Init /\ [][Next]_vars
(* ------------------------------ claims --------------------------------- *)
\* The value the constructor call binds to parameter k
Arg(k) ==
    IF k \in DOMAIN args.kwargs THEN args.kwargs[k] ELSE Defaults(args.cls)[k]

Supported(space) == space.kind \in {"Box", "Discrete"}

\* The network ends with the bounding nonlinearity
Squashed(net) == Len(net) > 0 /\ net[Len(net)].type = "Tanh"

OutputLayers(net) == {l \in 1..Len(net) : net[l].type = "Linear"}

(* C1: for both classes, construction with an action space that is neither *)
(* Box nor Discrete ends in NotImplementedError and yields no policy;      *)
(* construction with a Box or a Discrete space raises nothing and builds   *)
(* the action network of that branch (output width D resp. N).             *)
C1_UnsupportedActionSpace ==
    pc # "start" =>
        LET space == Arg("action_space")
        IN  IF Supported(space)
            THEN /\ pc = "ready" /\ error = "None"
                 /\ policy.action_space = space
                 /\ \E l \in OutputLayers(policy.action_net) :
                        /\ \A m \in OutputLayers(policy.action_net) : m <= l
                        /\ policy.action_net[l].out_features = space.n
                 /\ IsDiscrete(space) => ~Squashed(policy.action_net)
            ELSE /\ pc = "failed" /\ error = "NotImplementedError"
                 /\ policy = NoPolicy

C1_Witness ==
    /\ pc = "failed" /\ args.cls = "ARSLinearPolicy"
    /\ Arg("action_space").kind = "Tuple" /\ error = "NotImplementedError"

(* C2: squashing is applied to the action network's output only if the     *)
(* action space is continuous and the squash_output argument is true; for  *)
(* a discrete action space it is never applied.                            *)
C2_SquashOnlyIfRequested ==
    pc = "ready" =>
        /\ Squashed(policy.action_net) =>
                IsBox(policy.action_space) /\ Arg("squash_output")
        /\ IsDiscrete(policy.action_space) => ~Squashed(policy.action_net)

C4_GreedyArgmax ==
    (pc = "ready" /\ lastOp = "forward" /\ IsDiscrete(policy.action_space)) =>
        /\ out.error = "None"
        /\ Len(out.value) = Len(lastObs)
        /\ \A r \in 1..Len(lastObs) :
              LET logits == Sequential(policy.action_net, 1, weights, lastObs[r])
                  k == out.value[r]
              IN  /\ Len(logits) = policy.action_space.n
                  /\ k \in 0..(policy.action_space.n - 1)
                  /\ \A j \in 1..Len(logits) : logits[j] <= logits[k + 1]
                  /\ \A j \in 1..k : logits[j] < logits[k + 1]

C4_Witness ==
    /\ pc = "ready" /\ lastOp = "forward" /\ IsDiscrete(policy.action_space)
    /\ policy.action_space.n = 2 /\ Len(lastObs) = 2
    /\ out.value = <<0, 1>>
    /\ LET tie == Sequential(policy.action_net, 1, weights, lastObs[1])
       IN  tie[1] = tie[2]

(* C5: passing what _get_constructor_parameters returns back to the        *)
(* constructor of the same class succeeds and yields a policy with the     *)
(* same net_arch, activation function, observation and action space.       *)
C5_RoundTrip ==
    (pc = "ready" /\ lastOp = "reconstruct") =>
        /\ clone.error = "None"
        /\ clone.policy.net_arch = policy.net_arch
        /\ clone.policy.activation_fn = policy.activation_fn
        /\ clone.policy.observation_space = policy.observation_space
        /\ clone.policy.action_space = policy.action_space

(* C6: after a successful ARSLinearPolicy construction the action network  *)
(* is one affine layer features_dim -> D (or N) with bias = with_bias,     *)
(* followed at most by the bounding nonlinearity and only for a continuous *)
(* space; it has no hidden layer and is not the network the base           *)
(* constructor built.                                                      *)
C6_LinearReplacesNet ==
    (pc = "ready" /\ policy.cls = "ARSLinearPolicy") =>
        LET net == policy.action_net
            lin == [type |-> "Linear",
                    in_features |-> Arg("observation_space").n,
                    out_features |-> Arg("action_space").n,
                    bias |-> Arg("with_bias")]
            base == ARSPolicyInit(SuperArgs(
                        [k \in Signature(args.cls) |-> Arg(k)])).policy
        IN  /\ net[1] = lin
            /\ Cardinality(OutputLayers(net)) = 1
            /\ \/ Len(net) = 1
               \/ /\ Len(net) = 2 /\ net[2].type = "Tanh"
                  /\ IsBox(policy.action_space)
            /\ net # base.action_net
            /\ Cardinality(OutputLayers(base.action_net)) > 1

C6_Witness ==
    /\ pc = "ready" /\ policy.cls = "ARSLinearPolicy"
    /\ IsBox(policy.action_space) /\ Arg("with_bias")
    /\ Len(policy.action_net) = 2

(* C7: with with_bias = false, whatever the weights, an all-zero feature   *)
(* input gives the zero vector for a continuous space and N equal logits   *)
(* for a discrete one, so that forward returns index 0 for every row.      *)
ZeroBatch(obs) == \A r \in 1..Len(obs) : \A c \in 1..Len(obs[r]) : obs[r][c] = 0

C7_NoBiasZeroInput ==
    (/\ pc = "ready" /\ policy.cls = "ARSLinearPolicy" /\ ~Arg("with_bias")
     /\ lastOp \in {"forward", "predict"} /\ ZeroBatch(lastObs)) =>
        /\ out.error = "None"
        /\ Len(out.value) = Len(lastObs)
        /\ \A r \in 1..Len(lastObs) :
              LET y == Sequential(policy.action_net, 1, weights, lastObs[r])
              IN  IF IsBox(policy.action_space)
                  THEN /\ out.value[r] = [i \in 1..policy.action_space.n |-> 0]
                       /\ y = out.value[r]
                  ELSE /\ Len(y) = policy.action_space.n
                       /\ \A i \in 1..Len(y) : y[i] = y[1]
                       /\ out.value[r] = 0

C7_Witness ==
    /\ pc = "ready" /\ policy.cls = "ARSLinearPolicy" /\ ~Arg("with_bias")
    /\ lastOp = "forward" /\ ZeroBatch(lastObs) /\ Len(lastObs) = 2
    /\ IsDiscrete(policy.action_space) /\ policy.action_space.n = 2
    /\ weights # <<>>
    /\ out.value = <<0, 0>>

(* C8: in every state after a successful construction, whatever calls      *)
(* followed, net_arch is the sequence supplied at construction, or         *)
(* [64, 64] when none was supplied.                                        *)
C8_NetArch ==
    pc = "ready" =>
        policy.net_arch =
            IF "net_arch" \in DOMAIN args.kwargs /\ args.kwargs.net_arch # None
            THEN args.kwargs.net_arch[1]
            ELSE <<64, 64>>

C8_Witness ==
    /\ pc = "ready" /\ lastOp = "reconstruct" /\ policy.cls = "ARSPolicy"
    /\ args.kwargs.net_arch = None /\ policy.net_arch = <<64, 64>>
    /\ weights # <<>>

(* C9: the deterministic flag has no effect: _predict returns, for either  *)
(* value of the flag, what forward returns on the same batch.              *)
C9_DeterministicIgnored ==
    (pc = "ready" /\ lastOp = "predict") =>
        /\ out = forward(policy, weights, lastObs)
        /\ \A d \in BOOLEAN : _predict(policy, weights, lastObs, d) = out

C9_Witness ==
    /\ pc = "ready" /\ lastOp = "predict" /\ ~lastDet
    /\ IsDiscrete(policy.action_space) /\ out.value = <<1, 0>>

(* C10: after a successful construction no forward or _predict call raises *)
(* NotImplementedError: the action space is Box or Discrete and the call   *)
(* returns a value.                                                        *)
C10_ForwardNeverUnsupported ==
    pc = "ready" =>
        /\ Supported(policy.action_space)
        /\ lastOp \in {"forward", "predict"} =>
              /\ out.error = "None"
              /\ Len(out.value) = Len(lastObs)

C10_Witness ==
    /\ pc = "ready" /\ lastOp = "predict" /\ policy.cls = "ARSLinearPolicy"
    /\ IsBox(policy.action_space) /\ out.error = "None" /\ Len(out.value) = 2
====
